---- MODULE Spec2Model ----
(***************************************************************************)
(* A model of the JWKS client of src/client.go: one Client shared by the   *)
(* goroutines of Procs, each calling GetKeys or GetSigningKey.  Every      *)
(* statement of GetKeys/updateKeys that touches the mutex or the cache     *)
(* entry is one step, so that all interleavings of the lock/unlock         *)
(* sequence are explored.                                                  *)
(*                                                                         *)
(* Time is counted in seconds, the unit of cacheTimeout (client.go:216     *)
(* multiplies it by time.Second).  The zero time.Time is 0 and the clock   *)
(* starts after it.                                                        *)
(*                                                                         *)
(* Spec is the Client in use, SpecLive the same under fair scheduling,     *)
(* SpecFault the same with panics raised inside updateKeys, and SpecConfig *)
(* the construction of the configuration and of the Client.                *)
(***************************************************************************)
EXTENDS Integers, Sequences, FiniteSets, TLC

\* ------------------------------------------------------------- bounds
MaxTime == 3
MaxTimeout == 1

\* The goroutines sharing the Client.
Procs == {"g1", "g2"}
None == "none"
NoNote == << "none", None >>

\* ------------------------------------------------------------- data
\* type Key (client.go:79-120), reduced to the fields GetSigningKey reads
\* (Kid, Use) and one field of key material (N) that tells duplicates apart.
Key(kid, use, n) == [kid |-> kid, use |-> use, n |-> n]

\* Decoded payloads (the Keys slice of type Keys).
Bodies ==
    { << Key("K1", "sig", "A"), Key("K2", "enc", "B") >>,
      << Key("K1", "sig", "A"), Key("K1", "sig", "C") >> }

\* The key ids the callers ask GetSigningKey for.
Kids == {"K1", "K2"}

\* HTTP statuses the endpoint answers with.
Statuses == {200, 304, 400}

\* What httpClient.Get can produce: a transport error, or a response with a
\* status and a body that json.Decode accepts (parses) or rejects.
NoResp == [kind |-> "none", status |-> 0, parses |-> FALSE, body |-> << >>]
TransportFailure == [kind |-> "transport", status |-> 0, parses |-> FALSE, body |-> << >>]
HttpResponse(s, b) == [kind |-> "http", status |-> s, parses |-> TRUE, body |-> b]
MalformedResponse(s) == [kind |-> "http", status |-> s, parses |-> FALSE, body |-> << >>]
Responses ==
    {TransportFailure}
        \cup {HttpResponse(s, b) : s \in Statuses, b \in Bodies}
        \cup {MalformedResponse(s) : s \in Statuses}

\* error values
NilErr == [kind |-> "nil", code |-> 0]
TransportError == [kind |-> "transport", code |-> 0]
StatusError(code) == [kind |-> "status", code |-> code]
ParseError == [kind |-> "parse", code |-> 0]

\* The operations a goroutine calls.
NoOp == [name |-> "none", kid |-> ""]
Ops == {[name |-> "GetKeys", kid |-> ""]}
           \cup {[name |-> "GetSigningKey", kid |-> k] : k \in Kids}

\* ------------------------------------------------------------- config
\* The defaults, in seconds (lines 137 and 216 multiply by time.Second).
defaultRequestTimeout == 30
defaultcacheTimeout == 600

\* The loggers: the one NewConfig creates (stderr) and one of the caller's.
Loggers == {"stderr", "custom"}
NoLogger == "nil"

\* A nil *ClientConfig, and the Client not constructed yet.
NoConfig == [nil |-> TRUE]
NoClient == [nil |-> TRUE]

\* Mutant of NewConfig: the two default timeouts taken for each other.
NewConfigSwapped ==
    [disableStrictTLS |-> FALSE, enableDebugLogging |-> FALSE,
     logger |-> "stderr", cacheTimeout |-> defaultRequestTimeout,
     requestTimeout |-> defaultcacheTimeout]

\* NewConfig (enableDebugLogging is left at its zero value).
NewConfig ==
    [disableStrictTLS |-> FALSE, enableDebugLogging |-> FALSE,
     logger |-> "stderr", cacheTimeout |-> defaultcacheTimeout,
     requestTimeout |-> defaultRequestTimeout]

WithCacheTimeout(c, timeout) == [c EXCEPT !.cacheTimeout = timeout]
WithRequestTimeout(c, timeout) == [c EXCEPT !.requestTimeout = timeout]
WithStrictTLSPolicy(c, verificationDisabled) ==
    [c EXCEPT !.disableStrictTLS = verificationDisabled]
WithDebugLogging(c, enable, logger) ==
    [c EXCEPT !.enableDebugLogging = enable,
              !.logger = IF enable /\ logger # NoLogger THEN logger ELSE @]

\* NewClient(endpoint, c): the config the Client keeps (NewConfig() for nil),
\* and the http.Client it builds, its Timeout in seconds.
NewClient(c) ==
    LET cfg == IF c = NoConfig THEN NewConfig ELSE c
    IN  [config |-> cfg,
         httpTimeout |-> defaultRequestTimeout,
         insecureSkipVerify |-> cfg.disableStrictTLS]

VARIABLES
    now,          \* time.Now()
    conf,         \* the *ClientConfig the caller builds (NoConfig: none yet)
    client,       \* what NewClient built: c.config and c.httpClient's settings
    cacheTimeout, \* c.config.cacheTimeout
    keys,         \* c.keys: << >> is the nil pointer, <<S>> points to Keys{S}
    expiration,   \* c.expiration: 0 is the zero time
    readers,      \* goroutines holding c.mutex for reading
    writer,       \* goroutine that holds, or has announced, c.mutex.Lock()
    pc,           \* each goroutine's position
    op,           \* the operation the goroutine is in (or has last finished)
    err,          \* named result err of GetKeys
    rkeys,        \* result keys of GetKeys
    resp,         \* resp/err of httpClient.Get in updateKeys
    seen,         \* the expiration GetKeys' staleness test read (line 158)
    pre,          \* the entry as the goroutine found it on acquiring Lock()
    route,        \* how the current call went: "fast" (served from the cache),
                  \* "skip" (double check passed), "load" (fetch on an empty
                  \* cache), "fetch" (fetch on a stale entry)
    skey,         \* result of GetSigningKey: << >> is nil, <<k>> points to k
    serr,         \* err of GetSigningKey
    callFetches,  \* HTTP GETs issued by the goroutine's current call
    lastInstaller,\* the goroutine whose refresh installed the current entry
    last          \* the latest fetch worth a note, <<how, who>>: "failed"
                  \* (the goroutine's fetch failed, its call is not over and
                  \* nothing was installed since), "retry" (the same, its
                  \* call is over), "superseded" (an entry was installed
                  \* after the failure), "loading" (the goroutine's call
                  \* has filled the empty cache, at an instant that has not
                  \* passed yet), "loaded" (the same, its call is over);
                  \* <<"none", None>> otherwise

vars == << now, conf, client, cacheTimeout, keys, expiration, readers, writer, pc, op, err,
           rkeys, resp, seen, pre, route, skey, serr, callFetches, lastInstaller,
           last >>

cache == << keys, expiration >>
locals == << err, rkeys, resp, seen, pre, route, skey, serr, callFetches >>
ghosts == << lastInstaller, last >>
mutex == << readers, writer >>
config == << conf, client, cacheTimeout >>

\* ------------------------------------------------------------- helpers
\* Mutant of IsStale: Before written for After.
IsStaleBefore(k, e, t) == k = << >> \/ t < e

\* GetKeys' staleness test: c.keys == nil || time.Now().After(c.expiration)
IsStale(k, e, t) == k = << >> \/ t > e

\* Mutant of Refreshed: the double check left out.
RefreshedNever(e, t) == FALSE

\* updateKeys' double check: time.Now().Before(c.expiration)
Refreshed(e, t) == t < e

\* Mutant of NewExpiration: the cache timeout not added.
NewExpirationNoTimeout(t, timeout) == t

\* time.Now().Add(c.config.cacheTimeout * time.Second)
NewExpiration(t, timeout) == t + timeout

\* Mutant of FetchError: status > 400 written for >= 400.
FetchErrorAbove400(r) ==
    IF r.kind = "transport" THEN TransportError
    ELSE IF r.status > 400 THEN StatusError(r.status)
    ELSE IF ~r.parses THEN ParseError
    ELSE [kind |-> "nil", code |-> 0]

\* Mutant of FetchError: the error of the decoding returned as nil.
FetchErrorDecodeIgnored(r) ==
    IF r.kind = "transport" THEN TransportError
    ELSE IF r.status >= 400 THEN StatusError(r.status)
    ELSE [kind |-> "nil", code |-> 0]

\* The error updateKeys returns for the outcome r of httpClient.Get.
FetchError(r) ==
    IF r.kind = "transport" THEN TransportError
    ELSE IF r.status >= 400 THEN StatusError(r.status)
    ELSE IF ~r.parses THEN ParseError
    ELSE NilErr

\* Mutant of AfterResponse: the body decoded into the entry whatever the
\* status.
AfterResponseNoStatusCheck(r) ==
    IF r.kind = "transport" THEN "unlock"
    ELSE IF ~r.parses THEN "unlock"
    ELSE "setkeys"

\* Mutant of AfterResponse: the error of the decoding not looked at.
AfterResponseNoDecodeCheck(r) ==
    IF r.kind = "transport" THEN "unlock"
    ELSE IF r.status >= 400 THEN "unlock"
    ELSE "setkeys"

\* Where updateKeys goes after httpClient.Get returned r: on to the
\* assignments of lines 215-216, or out by one of the early returns.
AfterResponse(r) ==
    IF r.kind = "transport" THEN "unlock"
    ELSE IF r.status >= 400 THEN "unlock"
    ELSE IF ~r.parses THEN "unlock"
    ELSE "setkeys"

\* sync.RWMutex: RLock passes when no writer holds or has announced Lock();
\* Lock() first excludes the other writers and the new readers, then waits
\* for the readers that hold the lock to leave.
\* Mutant of CanRLock: readers admitted while a writer holds the lock.
CanRLockAlways == TRUE
CanRLock == writer = None
CanAnnounceLock == writer = None
\* Mutant of WriterAdmitted: the writer does not wait for the readers.
WriterAdmittedAtOnce == TRUE
WriterAdmitted == readers = {}

\* sync.RWMutex.RUnlock only counts the readers down.  Called by a goroutine
\* that holds the read lock it gives that hold up.  Called by one that does
\* not, it stops the program ("sync: RUnlock of unlocked RWMutex", a fatal
\* error no recover catches) when the count is zero, and otherwise takes the
\* hold of another reader away.
RUnlockFatal(g) == g \notin readers /\ readers = {}
\* Mutant of RUnlockLeaves: the read lock kept (Lock called under RLock).
RUnlockStays(g) == {readers}
RUnlockLeaves(g) ==
    IF g \in readers THEN {readers \ {g}}
    ELSE {readers \ {h} : h \in readers}

\* Mutant of AfterFault: Unlock called at the end of updateKeys, not deferred.
AfterFaultNoDefer == "prunlock"

\* Where a panic raised inside updateKeys goes first: to the deferred
\* c.mutex.Unlock() of line 186.
AfterFault == "punlock"

\* The loop of GetSigningKey: the iteration whose variable `result` points
\* to when the loop ends (0: result is nil).
RECURSIVE RangeKeys(_, _, _, _)
RangeKeys(S, i, kid, ptr) ==
    IF i > Len(S) THEN ptr
    ELSE RangeKeys(S, i + 1, kid,
                   IF S[i].kid = kid /\ S[i].use = "sig" THEN i ELSE ptr)

\* What `result` points to after the loop.  `result = &key` takes the address
\* of the loop variable: with one variable for the whole loop (Go before
\* 1.22, and any module without a go directive >= 1.22) that variable holds
\* the last element ranged over; with one variable per iteration it holds
\* the element of that iteration.
Deref(S, ptr, shared) ==
    IF ptr = 0 THEN << >>
    ELSE IF shared THEN << S[Len(S)] >>
    ELSE << S[ptr] >>

\* Mutant of SigningKey: the keys scanned whatever the error.
SigningKeyIgnoringErr(ks, e, kid, shared) ==
    Deref(ks, RangeKeys(ks, 1, kid, 0), shared)

\* GetSigningKey's result for GetKeys' results (ks, e).
SigningKey(ks, e, kid, shared) ==
    IF e = NilErr THEN Deref(ks, RangeKeys(ks, 1, kid, 0), shared) ELSE << >>

\* ------------------------------------------------------------- Init
\* The Client right after NewClient(endpoint, NewConfig().WithCacheTimeout(t)).
Init ==
    /\ now = 1
    /\ cacheTimeout \in 0..MaxTimeout
    /\ conf = WithCacheTimeout(NewConfig, cacheTimeout)
    /\ client = NewClient(conf)
    /\ keys = << >>
    /\ expiration = 0
    /\ readers = {}
    /\ writer = None
    /\ pc = [g \in Procs |-> "idle"]
    /\ op = [g \in Procs |-> NoOp]
    /\ err = [g \in Procs |-> NilErr]
    /\ rkeys = [g \in Procs |-> << >>]
    /\ resp = [g \in Procs |-> NoResp]
    /\ seen = [g \in Procs |-> 0]
    /\ pre = [g \in Procs |-> << << >>, 0 >>]
    /\ route = [g \in Procs |-> "none"]
    /\ skey = [g \in Procs |-> << >>]
    /\ serr = [g \in Procs |-> NilErr]
    /\ callFetches = [g \in Procs |-> 0]
    /\ lastInstaller = None
    /\ last = NoNote

\* ------------------------------------------------------------- actions
\* The clock advances.
Tick ==
    /\ now < MaxTime
    /\ now' = now + 1
    /\ last' = IF last[1] \in {"loading", "loaded"} THEN NoNote ELSE last
    /\ UNCHANGED << config, cache, mutex, pc, op, locals, lastInstaller >>

\* A goroutine enters GetKeys, called directly or as the first statement of
\* GetSigningKey(kid).  GetKeys does not read kid, so which of the two it is
\* is drawn when GetKeys is back in its caller (Finish).
Call(g) ==
    /\ pc[g] \in {"idle", "done"}
    /\ op' = [op EXCEPT ![g] = NoOp]
    /\ pc' = [pc EXCEPT ![g] = "rlock"]
    /\ err' = [err EXCEPT ![g] = NilErr]
    /\ rkeys' = [rkeys EXCEPT ![g] = << >>]
    /\ skey' = [skey EXCEPT ![g] = << >>]
    /\ serr' = [serr EXCEPT ![g] = NilErr]
    /\ UNCHANGED << resp, seen, pre, route, callFetches >>
    /\ UNCHANGED << now, config, cache, mutex, ghosts >>

\* GetKeys, line 155: c.mutex.RLock()
RLock(g) ==
    /\ pc[g] = "rlock"
    /\ CanRLock
    /\ readers' = readers \cup {g}
    /\ pc' = [pc EXCEPT ![g] = "check"]
    /\ UNCHANGED << now, config, cache, writer, op, locals, ghosts >>

\* GetKeys, line 158: the staleness test, under the read lock.
Check(g) ==
    /\ pc[g] = "check"
    /\ IF IsStale(keys, expiration, now)
       THEN /\ pc' = [pc EXCEPT ![g] = "runlock1"]
            /\ seen' = [seen EXCEPT ![g] = expiration]
            /\ UNCHANGED route
       ELSE /\ pc' = [pc EXCEPT ![g] = "ret"]
            /\ route' = [route EXCEPT ![g] = "fast"]
            /\ UNCHANGED seen
    /\ UNCHANGED << now, config, cache, mutex, op, err, rkeys, resp, pre,
                    skey, serr, callFetches, ghosts >>

\* GetKeys, line 159: c.mutex.RUnlock() before the refresh.
RUnlockForUpdate(g) ==
    /\ pc[g] = "runlock1"
    /\ IF RUnlockFatal(g)
       THEN /\ pc' = [h \in Procs |-> "fatal"]
            /\ UNCHANGED readers
       ELSE /\ \E rs \in RUnlockLeaves(g) : readers' = rs
            /\ pc' = [pc EXCEPT ![g] = "lock"]
    /\ UNCHANGED << now, config, cache, writer, op, locals, ghosts >>

\* updateKeys, line 185: c.mutex.Lock() announces the writer ...
LockAnnounce(g) ==
    /\ pc[g] = "lock"
    /\ CanAnnounceLock
    /\ writer' = g
    /\ pc' = [pc EXCEPT ![g] = "lockwait"]
    /\ UNCHANGED << now, config, cache, readers, op, locals, ghosts >>

\* ... and returns once the readers have left.
LockAcquire(g) ==
    /\ pc[g] = "lockwait"
    /\ WriterAdmitted
    /\ pre' = [pre EXCEPT ![g] = << keys, expiration >>]
    /\ pc' = [pc EXCEPT ![g] = "dcheck"]
    /\ UNCHANGED << now, config, cache, mutex, op, err, rkeys, resp, seen,
                    route, skey, serr, callFetches, ghosts >>

\* updateKeys, lines 190-192: the double check under the write lock.
DoubleCheck(g) ==
    /\ pc[g] = "dcheck"
    /\ IF Refreshed(expiration, now)
       THEN /\ pc' = [pc EXCEPT ![g] = "unlock"]
            /\ route' = [route EXCEPT ![g] = "skip"]
            /\ err' = [err EXCEPT ![g] = NilErr]
       ELSE /\ pc' = [pc EXCEPT ![g] = "get"]
            /\ route' = [route EXCEPT ![g] = IF keys = << >> THEN "load" ELSE "fetch"]
            /\ UNCHANGED err
    /\ seen' = [seen EXCEPT ![g] = 0]
    /\ UNCHANGED << now, config, cache, mutex, op, rkeys, resp, pre, skey,
                    serr, callFetches, ghosts >>

\* updateKeys, line 198: the GET is sent.
Get(g) ==
    /\ pc[g] = "get"
    /\ pc' = [pc EXCEPT ![g] = "inflight"]
    /\ callFetches' = [callFetches EXCEPT ![g] = @ + 1]
    /\ UNCHANGED << now, config, cache, mutex, op, err, rkeys, resp, seen,
                    pre, route, skey, serr, ghosts >>

\* updateKeys, lines 198-213: the GET returns; transport error, status and
\* decoding decide between the early returns and the installation.
Receive(g) ==
    /\ pc[g] = "inflight"
    /\ \E r \in Responses :
          /\ resp' = [resp EXCEPT ![g] = r]
          /\ err' = [err EXCEPT ![g] = FetchError(r)]
          /\ pc' = [pc EXCEPT ![g] = AfterResponse(r)]
          /\ last' = IF FetchError(r) # NilErr THEN << "failed", g >> ELSE last
    /\ UNCHANGED << now, config, cache, mutex, op, rkeys, seen, pre, route,
                    skey, serr, callFetches, lastInstaller >>

\* updateKeys, line 215: c.keys = keys
SetKeys(g) ==
    /\ pc[g] = "setkeys"
    /\ keys' = << resp[g].body >>
    /\ pc' = [pc EXCEPT ![g] = "setexp"]
    /\ UNCHANGED << now, config, expiration, mutex, op, locals, ghosts >>

\* updateKeys, line 216: c.expiration = time.Now().Add(...)
SetExpiration(g) ==
    /\ pc[g] = "setexp"
    /\ expiration' = NewExpiration(now, cacheTimeout)
    /\ lastInstaller' = g
    /\ last' = IF last[1] \in {"failed", "retry"} THEN << "superseded", last[2] >>
               ELSE IF route[g] = "load" THEN << "loading", g >>
               ELSE last
    /\ pc' = [pc EXCEPT ![g] = "unlock"]
    /\ UNCHANGED << now, config, keys, mutex, op, locals >>

\* updateKeys, line 186: the deferred c.mutex.Unlock()
Unlock(g) ==
    /\ pc[g] = "unlock"
    /\ writer' = None
    /\ pre' = [pre EXCEPT ![g] = << << >>, 0 >>]
    /\ pc' = [pc EXCEPT ![g] = "afterupdate"]
    /\ UNCHANGED << now, config, cache, readers, op, err, rkeys, resp, seen,
                    route, skey, serr, callFetches, ghosts >>

\* GetKeys, lines 160-164: on success c.keys.Keys is read, with no lock held.
\* A nil c.keys here is a nil dereference with the read lock released: the
\* deferred RUnlock then stops the program.
AfterUpdate(g) ==
    /\ pc[g] = "afterupdate"
    /\ IF err[g] = NilErr
       THEN IF keys = << >>
            THEN /\ pc' = [pc EXCEPT ![g] = "fatal"]
                 /\ UNCHANGED rkeys
            ELSE /\ pc' = [pc EXCEPT ![g] = "rlock2"]
                 /\ rkeys' = [rkeys EXCEPT ![g] = keys[1]]
       ELSE /\ pc' = [pc EXCEPT ![g] = "rlock2"]
            /\ UNCHANGED rkeys
    /\ UNCHANGED << now, config, cache, mutex, op, err, resp, seen, pre,
                    route, skey, serr, callFetches, ghosts >>

\* GetKeys, line 165: c.mutex.RLock() again
RLockAgain(g) ==
    /\ pc[g] = "rlock2"
    /\ CanRLock
    /\ readers' = readers \cup {g}
    /\ pc' = [pc EXCEPT ![g] = "ret"]
    /\ UNCHANGED << now, config, cache, writer, op, locals, ghosts >>

\* GetKeys, line 167: return c.keys.Keys, err.  With c.keys nil the operand
\* panics before the results are set: the recover of lines 150-154 ends the
\* call with the named results as they are.
Return(g) ==
    /\ pc[g] = "ret"
    /\ rkeys' = [rkeys EXCEPT ![g] = IF keys = << >> THEN @ ELSE keys[1]]
    /\ pc' = [pc EXCEPT ![g] = "runlock"]
    /\ UNCHANGED << now, config, cache, mutex, op, err, resp, seen, pre,
                    route, skey, serr, callFetches, ghosts >>

\* GetKeys, line 156: the deferred c.mutex.RUnlock(), then the deferred
\* recover of lines 150-154; the call is back in its caller, and
\* GetSigningKey (lines 172-182) selects its key.
DeferredRUnlock(g) ==
    /\ IF RUnlockFatal(g)
       THEN /\ pc' = [h \in Procs |-> "fatal"]
            /\ UNCHANGED << readers, last, resp, route, callFetches, op, skey,
                            serr >>
       ELSE /\ \E rs \in RUnlockLeaves(g) : readers' = rs
            /\ pc' = [pc EXCEPT ![g] = "done"]
            /\ last' = IF last = << "loading", g >> THEN << "loaded", g >>
                       ELSE IF last = << "failed", g >> THEN << "retry", g >>
                       ELSE IF last = << "loaded", g >> THEN NoNote
                       ELSE last
            /\ resp' = [resp EXCEPT ![g] = NoResp]
            /\ route' = [route EXCEPT ![g] = "none"]
            /\ callFetches' = [callFetches EXCEPT ![g] = 0]
            /\ \E o \in Ops :
                  /\ op' = [op EXCEPT ![g] = o]
                  /\ IF o.name = "GetSigningKey"
                     THEN /\ \E shared \in BOOLEAN :
                               skey' = [skey EXCEPT
                                          ![g] = SigningKey(rkeys[g], err[g],
                                                            o.kid, shared)]
                          /\ serr' = [serr EXCEPT ![g] = err[g]]
                     ELSE UNCHANGED << skey, serr >>
    /\ UNCHANGED << now, config, cache, writer, err, rkeys, seen, pre,
                    lastInstaller >>

\* The normal return of GetKeys: line 167 has set the results.
Finish(g) ==
    /\ pc[g] = "runlock"
    /\ DeferredRUnlock(g)

\* A panic raised inside updateKeys while the GET is under way (by the
\* transport's RoundTrip, say): lines 199-220 are skipped.
Fault(g) ==
    /\ pc[g] = "inflight"
    /\ pc' = [pc EXCEPT ![g] = AfterFault]
    /\ UNCHANGED << now, config, cache, mutex, op, locals, ghosts >>

\* updateKeys, line 186: the deferred c.mutex.Unlock(), run by the panic.
FaultUnlock(g) ==
    /\ pc[g] = "punlock"
    /\ writer' = None
    /\ pre' = [pre EXCEPT ![g] = << << >>, 0 >>]
    /\ pc' = [pc EXCEPT ![g] = "prunlock"]
    /\ UNCHANGED << now, config, cache, readers, op, err, rkeys, resp, seen,
                    route, skey, serr, callFetches, ghosts >>

\* The panic unwinds GetKeys from line 160: lines 161-167 are skipped (the
\* read lock released at line 159 is not taken again), the deferred RUnlock
\* of line 156 runs, the recover of lines 150-154 ends the call with the
\* named results as they are.
FaultFinish(g) ==
    /\ pc[g] = "prunlock"
    /\ DeferredRUnlock(g)

Next ==
    \/ Tick
    \/ \E g \in Procs :
          \/ Call(g)
          \/ RLock(g)
          \/ Check(g)
          \/ RUnlockForUpdate(g)
          \/ LockAnnounce(g)
          \/ LockAcquire(g)
          \/ DoubleCheck(g)
          \/ Get(g)
          \/ Receive(g)
          \/ SetKeys(g)
          \/ SetExpiration(g)
          \/ Unlock(g)
          \/ AfterUpdate(g)
          \/ RLockAgain(g)
          \/ Return(g)
          \/ Finish(g)

Spec == Init /\ [][Next]_vars

\* The same program with panics inside updateKeys.
NextFault ==
    \/ Next
    \/ \E g \in Procs :
          \/ Fault(g)
          \/ FaultUnlock(g)
          \/ FaultFinish(g)

SpecFault == Init /\ [][NextFault]_vars

\* ---------------------------------------------------------- construction
\* The caller's code before any call of GetKeys: it builds a configuration
\* (or none) and constructs the Client from it.
InitConfig ==
    /\ now = 1
    /\ conf = NoConfig
    /\ client = NoClient
    /\ cacheTimeout = 0
    /\ keys = << >>
    /\ expiration = 0
    /\ readers = {}
    /\ writer = None
    /\ pc = [g \in Procs |-> "idle"]
    /\ op = [g \in Procs |-> NoOp]
    /\ err = [g \in Procs |-> NilErr]
    /\ rkeys = [g \in Procs |-> << >>]
    /\ resp = [g \in Procs |-> NoResp]
    /\ seen = [g \in Procs |-> 0]
    /\ pre = [g \in Procs |-> << << >>, 0 >>]
    /\ route = [g \in Procs |-> "none"]
    /\ skey = [g \in Procs |-> << >>]
    /\ serr = [g \in Procs |-> NilErr]
    /\ callFetches = [g \in Procs |-> 0]
    /\ lastInstaller = None
    /\ last = NoNote

running == << now, cache, mutex, pc, op, locals, ghosts >>

\* config := NewConfig()
CallNewConfig ==
    /\ client = NoClient
    /\ conf = NoConfig
    /\ conf' = NewConfig
    /\ UNCHANGED << client, cacheTimeout, running >>

\* config.WithCacheTimeout(t)
CallWithCacheTimeout ==
    /\ client = NoClient
    /\ conf # NoConfig
    /\ \E t \in 0..MaxTimeout : conf' = WithCacheTimeout(conf, t)
    /\ UNCHANGED << client, cacheTimeout, running >>

\* config.WithRequestTimeout(t)
CallWithRequestTimeout ==
    /\ client = NoClient
    /\ conf # NoConfig
    /\ \E t \in 0..MaxTimeout : conf' = WithRequestTimeout(conf, t)
    /\ UNCHANGED << client, cacheTimeout, running >>

\* config.WithStrictTLSPolicy(b)
CallWithStrictTLSPolicy ==
    /\ client = NoClient
    /\ conf # NoConfig
    /\ \E b \in BOOLEAN : conf' = WithStrictTLSPolicy(conf, b)
    /\ UNCHANGED << client, cacheTimeout, running >>

\* config.WithDebugLogging(b, logger)
CallWithDebugLogging ==
    /\ client = NoClient
    /\ conf # NoConfig
    /\ \E b \in BOOLEAN : \E l \in {NoLogger, "custom"} :
          conf' = WithDebugLogging(conf, b, l)
    /\ UNCHANGED << client, cacheTimeout, running >>

\* NewClient(endpoint, config), with the caller's configuration or with nil.
CallNewClient ==
    /\ client = NoClient
    /\ \E c \in {conf, NoConfig} :
          /\ client' = NewClient(c)
          /\ cacheTimeout' = NewClient(c).config.cacheTimeout
    /\ UNCHANGED << conf, running >>

NextConfig ==
    \/ CallNewConfig
    \/ CallWithCacheTimeout
    \/ CallWithRequestTimeout
    \/ CallWithStrictTLSPolicy
    \/ CallWithDebugLogging
    \/ CallNewClient

SpecConfig == InitConfig /\ [][NextConfig]_vars

\* Scheduling.  A goroutine that can run does run (the Go scheduler is
\* preemptive), and the GET it waits for returns (a response, or an error at
\* the latest when the http.Client's Timeout expires): weak fairness of its
\* steps that wait for no lock, and of Lock's wait for the readers, which no
\* new reader can prolong.  A goroutine blocked in RLock or Lock is queued by
\* the runtime and served when the lock is released (the readers queued
\* behind a writer are admitted by its Unlock, the writers queue on the
\* inner sync.Mutex): strong fairness of the lock acquisitions.
Proceed(g) ==
    \/ Check(g) \/ RUnlockForUpdate(g) \/ LockAcquire(g) \/ DoubleCheck(g)
    \/ Get(g) \/ Receive(g) \/ SetKeys(g) \/ SetExpiration(g) \/ Unlock(g)
    \/ AfterUpdate(g) \/ Return(g) \/ Finish(g)
Acquire(g) == RLock(g) \/ RLockAgain(g) \/ LockAnnounce(g)

SpecLive ==
    /\ Init
    /\ [][Next]_vars
    /\ \A g \in Procs : WF_vars(Proceed(g)) /\ SF_vars(Acquire(g))

\* ------------------------------------------------------------- claims
\* What the claims call a fetch that failed: a transport error, a status
\* >= 400, or a status < 400 with a body that does not parse.
FetchFailed(r) ==
    \/ r.kind = "transport"
    \/ r.kind = "http" /\ r.status >= 400
    \/ r.kind = "http" /\ r.status < 400 /\ ~r.parses
FetchSucceeded(r) == r.kind = "http" /\ r.status < 400 /\ r.parses

\* The last element of S with the given kid and use "sig" (<< >>: none).
LastMatch(S, kid) ==
    LET M == {i \in 1..Len(S) : S[i].kid = kid /\ S[i].use = "sig"}
    IN  IF M = {} THEN << >>
        ELSE << S[CHOOSE i \in M : \A j \in M : j <= i] >>

HoldsRead(g) == pc[g] \in {"check", "runlock1", "ret", "runlock"}
HoldsWrite(g) == pc[g] \in {"dcheck", "get", "inflight", "setkeys", "setexp", "unlock"}
InFlight(g) == pc[g] \in {"inflight", "setkeys", "setexp"}

\* C1: a GetKeys that tests the entry while it is present and not expired
\* takes the fast path: it returns the stored key set with a nil error and
\* sends no GET; and a GetKeys that follows at once a GetKeys which fetched
\* into the empty cache sends no GET (one fetch for the two calls).
C1_CacheHit ==
    /\ [][\A g \in Procs :
            (pc[g] = "check" /\ keys # << >> /\ now < expiration /\ pc'[g] # "check")
                => (pc'[g] = "ret" /\ route'[g] = "fast" /\ callFetches'[g] = 0)]_vars
    /\ [](\A g \in Procs :
            (pc[g] = "runlock" /\ route[g] = "fast")
                => (err[g] = NilErr /\ keys # << >> /\ rkeys[g] = keys[1]
                    /\ callFetches[g] = 0 /\ resp[g] = NoResp))
    /\ [](\A g \in Procs :
            (pc[g] = "runlock" /\ last = << "loaded", g >>)
                => (route[g] = "fast" /\ callFetches[g] = 0 /\ err[g] = NilErr))

\* C1 witness: the second of two calls in immediate succession, the first
\* of which filled the empty cache, is served from the cache.
C1_Witness ==
    \E g \in Procs :
        /\ pc[g] = "runlock" /\ last = << "loaded", g >> /\ route[g] = "fast"
        /\ rkeys[g] = keys[1] /\ lastInstaller = g

\* C2 as claimed: after a fetch and parse that succeeded the call returns
\* the key set it has just parsed, with a nil error.
C2_ReturnsOwnKeySet ==
    \A g \in Procs :
        (pc[g] = "runlock" /\ FetchSucceeded(resp[g]))
            => (err[g] = NilErr /\ rkeys[g] = resp[g].body)

\* C2 amended: the successful refresh installs exactly the parsed key set
\* with expiration = now + cacheTimeout (never the zero time) at line 216;
\* the call returns a nil error and the key set the store holds when it
\* returns, which is the one it parsed unless a later refresh replaced it.
C2_SuccessfulRefresh ==
    /\ [][\A g \in Procs :
            (pc[g] = "setexp" /\ pc'[g] # "setexp")
                => (/\ keys' = << resp[g].body >>
                    /\ expiration' = now + cacheTimeout
                    /\ expiration' # 0)]_vars
    /\ [](\A g \in Procs :
            (FetchSucceeded(resp[g]) /\ pc[g] = "unlock")
                => (keys = << resp[g].body >> /\ err[g] = NilErr
                    /\ lastInstaller = g))
    /\ [](\A g \in Procs :
            (pc[g] = "runlock" /\ FetchSucceeded(resp[g]))
                => (/\ err[g] = NilErr
                    /\ keys # << >> /\ rkeys[g] = keys[1]
                    /\ (lastInstaller = g => rkeys[g] = resp[g].body)))

\* C2 witness: a refresh of a stale entry returns the key set it installed.
C2_Witness ==
    \E g \in Procs :
        /\ pc[g] = "runlock" /\ route[g] = "fetch" /\ FetchSucceeded(resp[g])
        /\ lastInstaller = g /\ rkeys[g] = resp[g].body
        /\ expiration > cacheTimeout /\ cacheTimeout > 0

\* C3: when a refresh attempt ends in a failed fetch, the stored key set and
\* expiration are what they were when the attempt took the writer lock; and
\* where an entry was installed after a failed fetch, the cache is populated.
C3_FailedRefreshKeepsCache ==
    /\ \A g \in Procs :
          (pc[g] = "unlock" /\ FetchFailed(resp[g]))
              => (keys = pre[g][1] /\ expiration = pre[g][2])
    /\ (last[1] = "superseded" => (keys # << >> /\ expiration # 0))

\* C3 witness: a call failed on the empty cache and returned no keys (the
\* cache stayed empty), and a later fetch has populated the cache.
C3_Witness ==
    \E g \in Procs :
        /\ pc[g] = "done" /\ err[g] # NilErr /\ rkeys[g] = << >>
        /\ last = << "superseded", g >> /\ keys # << >> /\ expiration # 0

\* C4: once the GET of a call has returned, the call's error is non-nil if
\* and only if the fetch failed (transport error, status >= 400, or status
\* < 400 with an unparseable body); this is the error GetKeys returns.
C4_OutcomeClassification ==
    \A g \in Procs :
        (resp[g] # NoResp /\ pc[g] \in {"unlock", "afterupdate", "rlock2", "ret", "runlock"})
            => /\ (err[g] # NilErr <=> FetchFailed(resp[g]))
               /\ (FetchSucceeded(resp[g]) => err[g] = NilErr)

\* C4 witness: a 304 with a parseable body is returned as success.
C4_Witness ==
    \E g \in Procs :
        /\ pc[g] = "runlock" /\ resp[g].kind = "http" /\ resp[g].status = 304
        /\ resp[g].parses /\ err[g] = NilErr

\* C5 as claimed: GetKeys returns a nil key sequence with every non-nil
\* error, and the stored key set with every nil error.
C5_KeysOrErrorNeverBoth ==
    \A g \in Procs :
        pc[g] = "runlock"
            => /\ (err[g] # NilErr => rkeys[g] = << >>)
               /\ (err[g] = NilErr => (keys # << >> /\ rkeys[g] = keys[1]))

\* C6: a caller that finds now before the stored expiration under the writer
\* lock sends no GET, leaves the store unchanged and returns nil from
\* updateKeys; it finds this only when the entry was replaced after its own
\* staleness test; no GET is sent or in flight while now is before the
\* expiration; and the caller returns the stored (refreshed) key set with a
\* nil error without having fetched.
C6_DoubleCheckShortCircuit ==
    /\ [][\A g \in Procs :
            (pc[g] = "dcheck" /\ now < expiration /\ pc'[g] # "dcheck")
                => (/\ pc'[g] = "unlock" /\ err'[g] = NilErr
                    /\ callFetches'[g] = callFetches[g]
                    /\ keys' = keys /\ expiration' = expiration
                    /\ expiration # seen[g] /\ lastInstaller # None)]_vars
    /\ [](\A g \in Procs :
            pc[g] \in {"get", "inflight"} => ~(now < expiration))
    /\ [](\A g \in Procs :
            (route[g] = "skip" /\ pc[g] = "unlock")
                => (keys = pre[g][1] /\ expiration = pre[g][2]
                    /\ err[g] = NilErr /\ callFetches[g] = 0))
    /\ [](\A g \in Procs :
            (route[g] = "skip" /\ pc[g] = "runlock")
                => (err[g] = NilErr /\ callFetches[g] = 0 /\ resp[g] = NoResp
                    /\ keys # << >> /\ rkeys[g] = keys[1]))

\* C6 witness: with a positive cache timeout, a caller that raced past the
\* staleness test returns the key set another caller's refresh installed.
C6_Witness ==
    \E g \in Procs :
        /\ pc[g] = "runlock" /\ route[g] = "skip" /\ cacheTimeout > 0
        /\ lastInstaller # g /\ lastInstaller # None /\ rkeys[g] = keys[1]

\* C7: while a caller is between sending the GET and installing its result,
\* it holds the writer lock, no other caller is there too, and no other
\* caller holds the reader lock or the writer lock.
C7_RefreshMutualExclusion ==
    \A g \in Procs :
        InFlight(g)
            => /\ writer = g
               /\ readers = {}
               /\ \A h \in Procs \ {g} :
                     ~InFlight(h) /\ ~HoldsRead(h) /\ ~HoldsWrite(h)

\* C7 witness: a refresh is in flight while another caller waits for a lock.
C7_Witness ==
    \E g \in Procs : \E h \in Procs \ {g} :
        InFlight(g) /\ pc[h] \in {"rlock", "lock", "rlock2"}

\* C8 as claimed: when GetKeys succeeded with S, GetSigningKey(kid) returns
\* with a nil error the last element of S with that kid and use "sig", and
\* absent when there is none.
C8_LastMatchingSigningKey ==
    \A g \in Procs :
        (pc[g] = "done" /\ op[g].name = "GetSigningKey" /\ err[g] = NilErr)
            => (serr[g] = NilErr /\ skey[g] = LastMatch(rkeys[g], op[g].kid))

\* C9: GetSigningKey returns the very error GetKeys returned (nil when it
\* was nil), and with a non-nil error the returned key is absent.
C9_SigningKeyErrorPropagation ==
    \A g \in Procs :
        (pc[g] = "done" /\ op[g].name = "GetSigningKey")
            => /\ serr[g] = err[g]
               /\ (err[g] # NilErr => skey[g] = << >>)
               /\ (LastMatch(rkeys[g], op[g].kid) = << >> /\ err[g] = NilErr
                      => (serr[g] = NilErr /\ skey[g] = << >>))

\* C9 witness: GetKeys failed on a stale set holding a matching key;
\* GetSigningKey returns the error and no key.
C9_Witness ==
    \E g \in Procs :
        /\ pc[g] = "done" /\ op[g].name = "GetSigningKey"
        /\ err[g] # NilErr /\ serr[g] = err[g] /\ skey[g] = << >>
        /\ LastMatch(rkeys[g], op[g].kid) # << >>

\* C10 as claimed: a call sends at most one GET; a failed fetch ends the
\* call with its error after that one GET; and the next call of a goroutine
\* whose fetch failed, with nothing installed in between, neither takes the
\* fast path nor the short circuit: it sends a GET again.
C10_NoInternalRetry ==
    \A g \in Procs :
        /\ callFetches[g] <= 1
        /\ (pc[g] = "runlock" /\ FetchFailed(resp[g]))
              => (err[g] # NilErr /\ callFetches[g] = 1)
        /\ (last = << "retry", g >>)
              => /\ route[g] \notin {"fast", "skip"}
                 /\ pc[g] \in {"done", "rlock", "check", "runlock1", "lock",
                                "lockwait", "dcheck", "get", "inflight",
                                "setkeys", "setexp"}

\* C11: the writer lock is held (or announced) only by a goroutine that is
\* inside updateKeys and has not yet run its deferred Unlock: once a refresh
\* attempt has ended, by success, short circuit, error or panic, the lock is
\* released by that step, and with nobody inside updateKeys it is free
\* (in a program that runs: one stopped by a fatal error has no callers).
C11_WriterLockReleased ==
    /\ [](\A g \in Procs :
            (writer = g /\ pc[g] # "fatal")
                => pc[g] \in {"lockwait", "dcheck", "get", "inflight",
                              "setkeys", "setexp", "unlock", "punlock"})
    /\ [][\A g \in Procs :
            (pc[g] \in {"unlock", "punlock"} /\ pc'[g] \notin {pc[g], "fatal"})
                => (writer = g /\ writer' = None)]_vars

\* C11 witness: a refresh ended by a panic has released the writer lock, and
\* another caller has taken it since.
C11_Witness ==
    \E g \in Procs : \E h \in Procs \ {g} :
        pc[g] = "prunlock" /\ writer = h /\ pc[h] = "dcheck"

\* C12: under fair scheduling, with every GET returning, every call of
\* GetKeys/GetSigningKey that has started eventually returns to its caller:
\* each goroutine is again and again outside GetKeys (it has not called
\* yet, or its call has returned), so none stays inside a call forever.
C12_EveryCallReturns ==
    \A g \in Procs : []<>(pc[g] \in {"idle", "done"})

\* C12 witness: a caller that has released the read lock waits for the
\* writer lock, announced, while the other caller still holds the read lock.
C12_Witness ==
    \E g \in Procs : \E h \in Procs \ {g} :
        pc[g] = "lockwait" /\ writer = g /\ h \in readers /\ HoldsRead(h)

\* C13: NewConfig() yields cache timeout 600, request timeout 30, strict TLS
\* (verification not disabled) and debug logging off; and the Client that
\* NewClient builds for a nil config keeps a config with exactly these.
C13_Defaults ==
    /\ [][(conf = NoConfig /\ conf' # NoConfig)
            => (/\ conf'.cacheTimeout = 600 /\ conf'.requestTimeout = 30
                /\ conf'.disableStrictTLS = FALSE
                /\ conf'.enableDebugLogging = FALSE)]_vars
    /\ [][(client = NoClient /\ client' # NoClient /\ client'.config # conf)
            => (/\ client'.config.cacheTimeout = 600
                /\ client'.config.requestTimeout = 30
                /\ client'.config.disableStrictTLS = FALSE
                /\ client'.config.enableDebugLogging = FALSE
                /\ cacheTimeout' = 600)]_vars

\* C13 witness: the caller holds a configuration with other values, and
\* the Client constructed with nil has the defaults.
C13_Witness ==
    /\ conf # NoConfig /\ client # NoClient
    /\ conf.cacheTimeout # 600 /\ conf.requestTimeout # 30
    /\ conf.disableStrictTLS /\ conf.enableDebugLogging
    /\ client.config = NewConfig /\ cacheTimeout = 600

\* C14 as claimed: GetKeys' staleness test sends the call to the refresh path
\* exactly when there is no entry or now >= expiration (so a call at
\* now = expiration refreshes), and with an entry present that test and the
\* double check of updateKeys give the same verdict for every now.
C14_StalenessBoundary ==
    /\ [][\A g \in Procs :
            (pc[g] = "check" /\ pc'[g] # "check")
                => (pc'[g] = "runlock1"
                        <=> (keys = << >> \/ now >= expiration))]_vars
    /\ [](keys # << >>
            => (IsStale(keys, expiration, now) <=> ~Refreshed(expiration, now)))

\* C15: outside the window between the two assignments of lines 215-216 the
\* key set is absent exactly when the expiration is the zero time; inside
\* that window the key set is the one the goroutine there has parsed, that
\* goroutine holds the writer lock and nobody holds the read lock (so every
\* holder of the read lock sees keys and expiration of one refresh); and
\* the expiration written at line 216 goes with that very key set.
C15_EntryPairing ==
    /\ []((\A g \in Procs : pc[g] # "setexp")
            => (keys = << >> <=> expiration = 0))
    /\ [](\A g \in Procs :
            pc[g] = "setexp"
                => (/\ keys = << resp[g].body >> /\ writer = g /\ readers = {}
                    /\ \A h \in Procs \ {g} :
                          ~HoldsRead(h) /\ pc[h] \notin {"setkeys", "setexp"}))
    /\ [](\A h \in Procs :
            HoldsRead(h) => (/\ \A g \in Procs : pc[g] # "setexp"
                             /\ (keys = << >> <=> expiration = 0)))
    /\ [][\A g \in Procs :
            (pc[g] = "setexp" /\ pc'[g] # "setexp")
                => (keys' = << resp[g].body >> /\ expiration' >= now
                    /\ expiration' # 0 /\ lastInstaller' = g)]_vars

\* C15 witness: a caller holding the read lock tests an entry that another
\* caller's refresh has installed in place of an earlier one.
C15_Witness ==
    \E h \in Procs :
        /\ pc[h] = "check" /\ h \in readers /\ keys # << >>
        /\ lastInstaller \notin {None, h} /\ expiration > 1 + cacheTimeout

\* C16: the stored key set and the expiration change only by a step of a
\* goroutine that is at lines 215-216 of updateKeys, holds the writer lock
\* and has fetched and parsed successfully; the staleness test and the
\* return of a fast-path call, the short-circuited double check, and the
\* return to the caller with GetSigningKey's scan leave both unchanged.
C16_OnlyRefreshWrites ==
    /\ [][(keys' # keys \/ expiration' # expiration)
            => \E g \in Procs :
                  /\ pc[g] \in {"setkeys", "setexp"} /\ pc'[g] # pc[g]
                  /\ writer = g /\ readers = {}
                  /\ FetchSucceeded(resp[g]) /\ err[g] = NilErr]_vars
    /\ [][\A g \in Procs :
            (/\ pc'[g] # pc[g]
             /\ \/ pc[g] \in {"check", "ret", "runlock", "dcheck", "unlock"}
                \/ route[g] \in {"fast", "skip"})
                => (keys' = keys /\ expiration' = expiration)]_vars

\* C16 witness: GetSigningKey has returned a key from a fast-path call, the
\* entry being the one another caller installed.
C16_Witness ==
    \E g \in Procs :
        /\ pc[g] = "done" /\ op[g].name = "GetSigningKey" /\ skey[g] # << >>
        /\ err[g] = NilErr /\ lastInstaller \notin {None, g}
        /\ keys # << >> /\ rkeys[g] = keys[1] /\ expiration > now

\* C17 as claimed: the http.Client that NewClient builds has for Timeout the
\* request timeout of the configuration it was given (the default one for
\* nil), and skips TLS verification exactly when that configuration
\* disables strict TLS.
C17_ConfiguredTimeoutHonoured ==
    [][(client = NoClient /\ client' # NoClient)
        => (/\ client'.httpTimeout = client'.config.requestTimeout
            /\ client'.insecureSkipVerify = client'.config.disableStrictTLS)]_vars

\* C18 as claimed: the reads GetKeys makes of the stored entry (the test of
\* line 158, the read of c.keys.Keys at line 161 after a successful
\* updateKeys, the return of line 167) are made under a lock, so that no
\* goroutine is at one of them while another goroutine is at the
\* assignments of lines 215-216.
C18_NoUnsynchronisedAccess ==
    \A g \in Procs : \A h \in Procs \ {g} :
        ~(/\ \/ pc[g] \in {"check", "ret"}
             \/ pc[g] = "afterupdate" /\ err[g] = NilErr
          /\ pc[h] \in {"setkeys", "setexp"})

\* C19 as claimed: on every path through GetKeys, the panic inside
\* updateKeys included, a goroutine about to release the read lock (line
\* 159, or the deferred release of line 156) holds it, a goroutine outside
\* GetKeys holds none, and no release stops the program.
C19_ReaderLockBalance ==
    \A g \in Procs :
        /\ pc[g] \in {"runlock1", "runlock", "prunlock"} => g \in readers
        /\ pc[g] \in {"idle", "done"} => g \notin readers
        /\ pc[g] # "fatal"

\* C20: a call whose error is nil once updateKeys is behind it, or that took
\* the fast path, finds a key set in the store (the read of line 161 never
\* meets a nil c.keys); and a GetKeys that returns a nil error returns the
\* key sequence of the entry the store holds at that moment, which is
\* present, whichever way the call went (fast path, short circuit, fetch).
C20_SuccessImpliesKeys ==
    \A g \in Procs :
        /\ pc[g] # "fatal"
        /\ (pc[g] \in {"afterupdate", "rlock2", "ret"} /\ err[g] = NilErr)
              => (keys # << >> /\ expiration # 0)
        /\ (pc[g] = "runlock" /\ err[g] = NilErr)
              => (keys # << >> /\ rkeys[g] = keys[1] /\ g \in readers)

\* C20 witness: a caller that took the short circuit is about to return, with
\* a nil error, the key set another caller installed.
C20_Witness ==
    \E g \in Procs :
        /\ pc[g] = "runlock" /\ route[g] = "skip" /\ err[g] = NilErr
        /\ keys # << >> /\ rkeys[g] = keys[1] /\ lastInstaller \notin {None, g}
        /\ seen[g] = 0 /\ callFetches[g] = 0

====
